---- MODULE Spec2Model ----
(***************************************************************************)
(* A model of the crowd counter: the singleton model handler               *)
(* (src/handler.py), the upload endpoint that drives it (src/app.py) and   *)
(* the heatmap generator (src/heatmap_gen.py): region loading and          *)
(* matching, the batch driver and the rendering of the overlay.            *)
(***************************************************************************)
EXTENDS Integers, Sequences, FiniteSets, TLC

(***************************************************************************)
(* Bounds of the model.                                                    *)
(***************************************************************************)
\* threads that construct EndpointHandler() and call it
NumCallers == 2
\* constructions of EndpointHandler() in one run of the process
MaxCtor == 2
\* detections (boxes) in one detection result
MaxBoxes == 2
\* requests to /predict/ in one run of the process
MaxReqs == 2
\* regions in config/regions.json
MaxRegions == 2
\* characters in the name of an image file
MaxFileLen == 3
\* image files in the image directory when main() lists it
MaxImages == 2
\* invocations of main() in one run of the process
MaxRuns == 2
\* tags in the base document map.svg
MaxDocLen == 3

(***************************************************************************)
(* Program constants.                                                      *)
(***************************************************************************)
\* handler.py:83 and app.py:84: 10 * 1024 * 1024
SizeLimit == 10 * 1024 * 1024
\* handler.py:58: max_size = 640
max_size == 640
\* handler.py:110: class 0 is 'person'
PersonClass == 0
\* heatmap_gen.py:81 and 84: the counts up to which a region is green and
\* orange
LowMax == 7
MediumMax == 10

VARIABLES
    cls_instance,   \* EndpointHandler._instance: None or an instance id
    inst,           \* instance id -> the instance's attributes
    loads,          \* how many times YOLO(model_path) has been called
    ctors,          \* how many times EndpointHandler() has been called
    pc,             \* caller -> where the caller is in EndpointHandler()
    self,           \* caller -> the instance __new__ gave it (None before)
    obs,            \* caller -> what its last construction observed
    lastCall,       \* the last completed __call__: instance, input, outcome
    image,          \* handler.py:54, the size of the image preprocess_image got
    preprocessed,   \* handler.py:54-69, what preprocess_image did with it
    handler,        \* app.py:32, the global handler: None or an instance id
    req,            \* request -> the state of its predict() coroutine
    job,            \* request -> the executor job process_image submitted
    regions,        \* heatmap_gen.py:20, the regions of config/regions.json
    image_file,     \* heatmap_gen.py:127, the file main() is looking at
    region_name,    \* heatmap_gen.py:130, what assign_image_to_region gave
    config,         \* config/regions.json as the import finds it
    gen_pc,         \* where heatmap_gen.py is: import, main's loop, idle
    crowd_counts,   \* heatmap_gen.py:30, region name -> accumulated count
    processed_images, \* heatmap_gen.py:126
    todo,           \* heatmap_gen.py:127, the files of os.listdir not yet seen
    reply,          \* heatmap_gen.py:49, what the last POST to /predict/ gave
    log,            \* the executions of line 133 in this run: <<name, count>>
    runs,           \* how many times main() has been invoked
    svg_content,    \* heatmap_gen.py:70, the base document read
    heatmap_file,   \* the file at HEATMAP_OUTPUT_PATH
    rendered        \* what the last generate_heatmap() did

\* the state of handler.py, of app.py and of heatmap_gen.py
hVars == <<cls_instance, inst, loads, ctors, pc, self, obs, lastCall>>
appVars == <<handler, req, job>>
preVars == <<image, preprocessed>>
drvVars == <<config, gen_pc, crowd_counts, processed_images, todo, reply, log, runs>>
renderVars == <<svg_content, heatmap_file, rendered>>
genVars == <<regions, image_file, region_name, drvVars, renderVars>>
vars == <<hVars, preVars, appVars, genVars>>

Callers == 1..NumCallers
\* __new__ creates an object only while _instance is None, so a caller
\* creates at most one: an object is named by the caller that created it
InstIds == Callers
Reqs == 1..MaxReqs

(***************************************************************************)
(* Inputs of __call__ (handler.py:71): the data dict, and what the opaque  *)
(* detector does when it is invoked.                                       *)
(***************************************************************************)
MiB == 1024 * 1024
\* byte lengths around the 10 MiB limit
Lens == {0, 1024, SizeLimit - 1, SizeLimit, SizeLimit + 1, 11 * MiB}
\* decoded image sizes <<width, height>>; NoSize when the bytes do not decode
NoSize == <<0, 0>>
ImageSizes == {<<1, 1>>, <<640, 480>>, <<1280, 960>>, <<1300, 1>>}
\* the data dict: key = "absent" when it has no "inputs" key, "none" when
\* inputs is None, "bytes" when inputs is a bytes object of length len that
\* Image.open(...).convert("RGB") decodes (decodes) to an image of size size.
\* Zero bytes never decode.
Datas ==
    {[key |-> "absent", len |-> 0, decodes |-> FALSE, size |-> NoSize],
     [key |-> "none", len |-> 0, decodes |-> FALSE, size |-> NoSize]}
    \cup {[key |-> "bytes", len |-> n, decodes |-> FALSE, size |-> NoSize] :
            n \in Lens}
    \cup {[key |-> "bytes", len |-> n, decodes |-> TRUE, size |-> sz] :
            n \in Lens \ {0}, sz \in ImageSizes}

\* box.cls[0] of one detection: a class id, or BadCls, a value int() cannot
\* read
OtherClass == 1
BadCls == -1
ClsValues == {PersonClass, OtherClass, BadCls}
BoxSeqs == UNION {[1..n -> ClsValues] : n \in 0..MaxBoxes}
\* what self._model(image) does: raises, or returns a list of results, each
\* the sequence of its boxes' classes. NotInvoked: the call never reaches it
DetRaises == [kind |-> "raises", results |-> <<>>]
NotInvoked == [kind |-> "not invoked", results |-> <<>>]
DetReturns(rs) == [kind |-> "returns", results |-> rs]
Dets ==
    {DetRaises, DetReturns(<<>>)}
    \cup {DetReturns(<<bs>>) : bs \in BoxSeqs}
    \cup {DetReturns(<<bs, <<PersonClass>> >>) : bs \in BoxSeqs}

(***************************************************************************)
(* EndpointHandler.preprocess_image (handler.py:54-69).  The new size is   *)
(* int(dim * ratio) with ratio = max_size / max(size), both computed in    *)
(* IEEE-754 doubles; Image.resize raises for a side of 0.  The result is   *)
(* the new size, or NoSize when it raises.                                 *)
(***************************************************************************)
Max2(a, b) == IF a >= b THEN a ELSE b
Min2(a, b) == IF a <= b THEN a ELSE b

\* widths and heights of the images given to preprocess_image alone
Dims == {1, 2, 320, 640, 641, 1077, 1280, 1300, 2154}
PreSizes == Dims \X Dims

\* The double dim * (max_size / m) differs from the rational dim * 640 / m
\* by less than 1 / m, so int() of it is the exact floor unless the
\* rational is an integer and the double falls just below it.  RoundsBelow:
\* the pairs <<dim, m>> of Dims and ImageSizes where it does, e.g.
\* 1077 * (640 / 1077) = 639.9999999999999
RoundsBelow == {<<1077, 1077>>, <<1077, 2154>>, <<2154, 2154>>}

\* line 63: int(dim * ratio)
scaled(dim, m) ==
    LET exact == (dim * max_size) \div m
    IN  IF <<dim, m>> \in RoundsBelow THEN exact - 1 ELSE exact

\* lines 58-63: the size the image is resized to; its own size if ratio >= 1
new_size(size) ==
    LET m == Max2(size[1], size[2])
    IN  IF max_size < m   \* ratio < 1
        THEN <<scaled(size[1], m), scaled(size[2], m)>>
        ELSE size

\* lines 64 and 67-69: resize raises for an empty size and the except
\* clause re-raises
preprocess_image(size) ==
    IF new_size(size)[1] = 0 \/ new_size(size)[2] = 0 THEN NoSize ELSE new_size(size)

(***************************************************************************)
(* EndpointHandler.__call__ (handler.py:71-129) as a function of the       *)
(* instance's attributes, the data and the detector's behaviour.  The      *)
(* value is what the call returns (out: the returned dict, or Raised),     *)
(* and which steps it attempted: opened (Image.open, line 88) and inferred *)
(* (self._model(image), line 98).                                          *)
(***************************************************************************)
Err(msg) == [error |-> msg]
Raised == [raised |-> TRUE]
ProcessingTime == "%.2fs"

\* mutant of person_count: every box is counted, whatever its class
person_count_all(boxes) == Len(boxes)

\* handler.py:110: sum(1 for box in results[0].boxes if int(box.cls[0]) == 0)
RECURSIVE person_count(_)
person_count(boxes) ==
    IF boxes = <<>> THEN 0
    ELSE (IF Head(boxes) = PersonClass THEN 1 ELSE 0) + person_count(Tail(boxes))

Unreadable(boxes) == \E k \in DOMAIN boxes : boxes[k] = BadCls

Returns(o, opened, inferred) == [out |-> o, opened |-> opened, inferred |-> inferred]

\* mutant of ProcessResults: a class that cannot be read counts as no one
ProcessResultsLenient(results) ==
    IF results = <<>> THEN [count |-> 0]
    ELSE IF Unreadable(results[1]) THEN [count |-> 0]
    ELSE [count |-> person_count(results[1]), processing_time |-> ProcessingTime]

\* lines 104-120
ProcessResults(results) ==
    IF results = <<>> THEN [count |-> 0]
    ELSE IF Unreadable(results[1]) THEN Err("Failed to process detection results")
    ELSE [count |-> person_count(results[1]), processing_time |-> ProcessingTime]

\* mutant of Unexpected: no outer except clause, the exception leaves __call__
UnexpectedRaises(opened, inferred) == Returns(Raised, opened, inferred)

\* the except clause of line 122
Unexpected(opened, inferred) ==
    Returns(Err("Unexpected error occurred"), opened, inferred)

\* line 76: not self.initialized or self._model is None
NotInitialized(attrs) == attrs.initialized = "False" \/ attrs.model = 0

\* mutant of NoInputsKey: the key is never checked
NoInputsKeyUnchecked(data) == FALSE

\* line 79: "inputs" not in data
NoInputsKey(data) == data.key = "absent"

\* mutant of TooLarge: the limit itself is rejected
TooLargeOrEqual(data) == data.len >= SizeLimit

\* line 83: len(image_bytes) > 10 * 1024 * 1024
TooLarge(data) == data.len > SizeLimit

\* mutant of open_image: bytes that do not decode give a blank 1x1 image
open_image_blank(data) ==
    IF data.decodes THEN preprocess_image(data.size) ELSE <<1, 1>>

\* lines 87-92: Image.open(...).convert("RGB") then preprocess_image; the
\* value is the preprocessed image's size, or NoSize when either raises
open_image(data) ==
    IF data.decodes THEN preprocess_image(data.size) ELSE NoSize

Call(attrs, data, det) ==
    IF attrs.initialized = "unset"          \* AttributeError at line 76
    THEN Unexpected(FALSE, FALSE)
    ELSE IF NotInitialized(attrs)
    THEN Returns(Err("Model not initialized"), FALSE, FALSE)
    ELSE IF NoInputsKey(data)
    THEN Returns(Err("No 'inputs' key in request data"), FALSE, FALSE)
    ELSE IF data.key = "none"               \* len(None): TypeError at line 83
    THEN Unexpected(FALSE, FALSE)
    ELSE IF TooLarge(data)
    THEN Returns(Err("Image size too large"), FALSE, FALSE)
    ELSE IF open_image(data) = NoSize
    THEN Returns(Err("Failed to process image"), TRUE, FALSE)
    ELSE IF det.kind # "returns"
    THEN Returns(Err("Model inference failed"), TRUE, TRUE)
    ELSE Returns(ProcessResults(det.results), TRUE, TRUE)

(***************************************************************************)
(* The singleton: EndpointHandler.__new__ and __init__ (handler.py:20-52), *)
(* one action per step between which another thread can run.               *)
(***************************************************************************)
NoAttrs == [created |-> FALSE, initialized |-> "unset", model |-> 0, last_used |-> "None"]
\* lastCall before any call: instance 0 (None)
NoCall == [inst |-> 0, state |-> "Uninitialized",
           data |-> CHOOSE d \in Datas : d.key = "absent",
           det |-> NotInvoked, ret |-> Returns(Raised, FALSE, FALSE)]

\* a request that has not arrived, and no job
NoUpload == [is_image |-> FALSE, data |-> CHOOSE d \in Datas : d.key = "absent"]
NoReq == [pc |-> "idle", upload |-> NoUpload, status |-> 0, detail |-> "",
          saw_handler |-> FALSE, timed_out |-> FALSE, after_timeout |-> FALSE]
NoJob == [state |-> "none", det |-> NotInvoked, ret |-> Returns(Raised, FALSE, FALSE)]

\* region_name before assign_image_to_region has run
NotAssigned == <<"unset">>

\* preprocess_image has not run
NotPreprocessed == [new_size |-> NoSize, raised |-> FALSE]
PreIdle ==
    /\ image = NoSize
    /\ preprocessed = NotPreprocessed

\* heatmap_gen.py has not been imported
NoConfig == [kind |-> "none", regions |-> <<>>]
NoReply == [kind |-> "none", count |-> 0]
NoFile == <<[t |-> "no file"]>>
NoRender == [result |-> "none", rects |-> <<>>]
DrvIdle ==
    /\ config = NoConfig
    /\ gen_pc = "not imported"
    /\ crowd_counts = <<>>
    /\ processed_images = 0
    /\ todo = <<>>
    /\ reply = NoReply
    /\ log = <<>>
    /\ runs = 0
RenderIdle ==
    /\ svg_content = NoFile
    /\ heatmap_file = NoFile
    /\ rendered = NoRender

\* handler.py and app.py before anything has run
HandlerIdle ==
    /\ cls_instance = 0
    /\ inst = [i \in InstIds |-> NoAttrs]
    /\ loads = 0
    /\ ctors = 0
    /\ pc = [c \in Callers |-> "idle"]
    /\ self = [c \in Callers |-> 0]
    /\ obs = [c \in Callers |-> "none"]
    /\ lastCall = NoCall
    /\ handler = 0
    /\ req = [r \in Reqs |-> NoReq]
    /\ job = [r \in Reqs |-> NoJob]

Init ==
    /\ cls_instance = 0
    /\ inst = [i \in InstIds |-> NoAttrs]
    /\ loads = 0
    /\ ctors = 0
    /\ pc = [c \in Callers |-> "idle"]
    /\ self = [c \in Callers |-> 0]
    /\ obs = [c \in Callers |-> "none"]
    /\ lastCall = NoCall
    /\ handler = 0
    /\ req = [r \in Reqs |-> NoReq]
    /\ job = [r \in Reqs |-> NoJob]
    /\ regions = <<>>
    /\ image_file = <<>>
    /\ region_name = NotAssigned
    /\ PreIdle
    /\ DrvIdle
    /\ RenderIdle

\* what a caller that got the instance back sees: Ready or Failed
StateOf(attrs) ==
    IF attrs.initialized = "True" /\ attrs.model # 0 THEN "Ready"
    ELSE IF attrs.initialized = "unset" THEN "Uninitialized"
    ELSE "Failed"

\* EndpointHandler() is called; line 21: if cls._instance is None
NewCheck(c) ==
    /\ pc[c] \in {"idle", "returned", "raised"}
    /\ ctors < MaxCtor
    /\ ctors' = ctors + 1
    /\ pc' = [pc EXCEPT ![c] = IF cls_instance = 0 THEN "new" ELSE "new_ret"]
    /\ self' = [self EXCEPT ![c] = 0]
    /\ obs' = [obs EXCEPT ![c] = "none"]
    /\ UNCHANGED <<cls_instance, inst, loads, lastCall>>
    /\ UNCHANGED <<preVars, appVars, genVars>>

\* line 22: cls._instance = super().__new__(cls)
NewCreate(c) ==
    /\ pc[c] = "new"
    /\ inst' = [inst EXCEPT ![c] = [NoAttrs EXCEPT !.created = TRUE]]
    /\ cls_instance' = c
    /\ pc' = [pc EXCEPT ![c] = "new_ret"]
    /\ UNCHANGED <<loads, ctors, self, obs, lastCall>>
    /\ UNCHANGED <<preVars, appVars, genVars>>

\* line 23: return cls._instance; __init__ then runs on the object returned
NewReturn(c) ==
    /\ pc[c] = "new_ret"
    /\ self' = [self EXCEPT ![c] = cls_instance]
    /\ pc' = [pc EXCEPT ![c] = "init"]
    /\ UNCHANGED <<cls_instance, inst, loads, ctors, obs, lastCall>>
    /\ UNCHANGED <<preVars, appVars, genVars>>

\* line 27: if not hasattr(self, 'initialized'); otherwise __init__ returns
InitCheck(c) ==
    /\ pc[c] = "init"
    /\ IF inst[self[c]].initialized = "unset"
       THEN /\ pc' = [pc EXCEPT ![c] = "try"]
            /\ obs' = obs
       ELSE /\ pc' = [pc EXCEPT ![c] = "returned"]
            /\ obs' = [obs EXCEPT ![c] = StateOf(inst[self[c]])]
    /\ UNCHANGED <<cls_instance, inst, loads, ctors, self, lastCall>>
    /\ UNCHANGED <<preVars, appVars, genVars>>

\* mutant of ModelCheck: the flag is set before the model is loaded
ModelCheckFlagFirst(c) ==
    /\ pc[c] = "try"
    /\ inst' = [inst EXCEPT ![self[c]].initialized = "True"]
    /\ pc' = [pc EXCEPT ![c] = IF inst[self[c]].model = 0 THEN "load" ELSE "finish"]
    /\ UNCHANGED <<cls_instance, loads, ctors, self, obs, lastCall>>
    /\ UNCHANGED <<preVars, appVars, genVars>>

\* line 38: if self._model is None
ModelCheck(c) ==
    /\ pc[c] = "try"
    /\ pc' = [pc EXCEPT ![c] = IF inst[self[c]].model = 0 THEN "load" ELSE "finish"]
    /\ UNCHANGED <<cls_instance, inst, loads, ctors, self, obs, lastCall>>
    /\ UNCHANGED <<preVars, appVars, genVars>>

\* lines 49-52: the except clause sets initialized = False and re-raises
InitFails(c, attrs) ==
    /\ inst' = [inst EXCEPT ![self[c]] = [attrs EXCEPT !.initialized = "False"]]
    /\ pc' = [pc EXCEPT ![c] = "raised"]
    /\ obs' = [obs EXCEPT ![c] = "Failed"]

\* lines 39-40: self._model = YOLO(path); self._model.to('cpu').  YOLO()
\* may raise (no model set), or .to() may raise (the model stays set)
Load(c) ==
    /\ pc[c] = "load"
    /\ loads' = loads + 1
    /\ \/ /\ inst' = [inst EXCEPT ![self[c]].model = loads + 1]
          /\ pc' = [pc EXCEPT ![c] = "finish"]
          /\ obs' = obs
       \/ InitFails(c, inst[self[c]])
       \/ InitFails(c, [inst[self[c]] EXCEPT !.model = loads + 1])
    /\ UNCHANGED <<cls_instance, ctors, self, lastCall>>
    /\ UNCHANGED <<preVars, appVars, genVars>>

\* lines 46-47: self._last_used = time.time(); self.initialized = True
Finish(c) ==
    /\ pc[c] = "finish"
    /\ inst' = [inst EXCEPT ![self[c]] =
                  [@ EXCEPT !.last_used = "init", !.initialized = "True"]]
    /\ pc' = [pc EXCEPT ![c] = "returned"]
    /\ obs' = [obs EXCEPT ![c] = StateOf(inst'[self[c]])]
    /\ UNCHANGED <<cls_instance, loads, ctors, self, lastCall>>
    /\ UNCHANGED <<preVars, appVars, genVars>>

\* a caller that holds the handler calls it: __call__ (lines 71-129); the
\* finally clause (line 129) stamps _last_used on every path.  The data and
\* the detector's behaviour are drawn from datas and dets.
CallWith(c, datas, dets) ==
    /\ pc[c] = "returned"
    /\ \E data \in datas, det \in dets \cup {NotInvoked} :
         LET ret == Call(inst[self[c]], data, det) IN
         /\ ret.inferred <=> det # NotInvoked
         /\ lastCall' = [inst |-> self[c], state |-> StateOf(inst[self[c]]),
                         data |-> data, det |-> det, ret |-> ret]
    /\ inst' = [inst EXCEPT ![self[c]].last_used = "call"]
    /\ UNCHANGED <<cls_instance, loads, ctors, pc, self, obs>>
    /\ UNCHANGED <<preVars, appVars, genVars>>

\* the calls made while handlers are being constructed: no "inputs" key,
\* bytes that do not decode, an image; the detector raises or finds a person
ProbeDatas ==
    {d \in Datas : \/ d.key = "absent"
                   \/ d.key = "bytes" /\ d.len = 1024 /\ d.size \in {NoSize, <<640, 480>>}}
ProbeDets == {DetRaises, DetReturns(<< <<PersonClass>> >>)}

CallStep(c) == CallWith(c, ProbeDatas, ProbeDets)

Next ==
    \E c \in Callers :
        \/ NewCheck(c)
        \/ NewCreate(c)
        \/ NewReturn(c)
        \/ InitCheck(c)
        \/ ModelCheck(c)
        \/ Load(c)
        \/ Finish(c)
        \/ CallStep(c)

Spec == Init /\ [][Next]_vars

(***************************************************************************)
(* One thread constructs the handler and calls it with every input: the    *)
(* construction runs alone, so each call meets a handler that is Ready or  *)
(* Failed.                                                                 *)
(***************************************************************************)
CallAny(c) == CallWith(c, Datas, Dets)

NextCall ==
    \/ NewCheck(1)
    \/ NewCreate(1)
    \/ NewReturn(1)
    \/ InitCheck(1)
    \/ ModelCheck(1)
    \/ Load(1)
    \/ Finish(1)
    \/ CallAny(1)

SpecCall == Init /\ [][NextCall]_vars

(***************************************************************************)
(* preprocess_image alone, on an image of every size of PreSizes.          *)
(***************************************************************************)
InitPre ==
    /\ HandlerIdle
    /\ image \in PreSizes
    /\ preprocessed = NotPreprocessed
    /\ regions = <<>>
    /\ image_file = <<>>
    /\ region_name = NotAssigned
    /\ DrvIdle
    /\ RenderIdle

\* handler.py:54-69
Preprocess ==
    /\ preprocessed = NotPreprocessed
    /\ preprocessed' = [new_size |-> new_size(image),
                        raised |-> preprocess_image(image) = NoSize]
    /\ UNCHANGED <<hVars, image, appVars, genVars>>

NextPre == Preprocess

SpecPre == InitPre /\ [][NextPre]_vars

(***************************************************************************)
(* The upload endpoint (app.py).  startup_event constructs the handler on  *)
(* the event loop; predict() validates the upload, hands the handler call  *)
(* to the executor (process_image) and waits for it for at most 30 s.      *)
(***************************************************************************)
\* app.py:84
file_size_limit == 10 * 1024 * 1024

\* the uploads: content type image/... or not, and the bytes read
UploadDatas ==
    {d \in Datas : /\ d.key = "bytes"
                   /\ d.len \in {1024, file_size_limit, file_size_limit + 1}
                   /\ d.size \in {NoSize, <<640, 480>>}}
Uploads ==
    {[is_image |-> TRUE, data |-> d] : d \in UploadDatas}
    \cup {[is_image |-> FALSE, data |-> d] :
            d \in {x \in UploadDatas : x.len = 1024 /\ x.decodes}}

\* app.py:39: handler = EndpointHandler(), once, when the server starts
StartupBegin == ctors = 0 /\ NewCheck(1)

\* app.py:39: the assignment, when the constructor has returned; when it
\* raised, startup_event re-raises (line 43) and handler stays None
StartupAssign ==
    /\ pc[1] = "returned"
    /\ handler = 0
    /\ handler' = self[1]
    /\ UNCHANGED <<cls_instance, inst, loads, ctors, pc, self, obs, lastCall, req, job>>
    /\ UNCHANGED <<preVars, genVars>>

HTTPException(status, detail) == [type |-> "HTTPException", status |-> status, detail |-> detail]
TimeoutError == [type |-> "TimeoutError", status |-> 0, detail |-> ""]
RuntimeError == [type |-> "Exception", status |-> 0, detail |-> ""]

\* app.py:118-129: the except clauses around the body of predict(); exc is
\* what the body raised.  HTTPException is an Exception, so the second
\* clause catches the ones the body raises itself.
predict_except(exc) ==
    IF exc.type = "TimeoutError"
    THEN HTTPException(504, "Request timed out")
    ELSE HTTPException(500, "An error occurred during prediction")

\* the response FastAPI sends for an HTTPException that leaves predict()
Respond(r, q, exc) ==
    req' = [req EXCEPT ![r] = [q EXCEPT !.pc = "responded",
                                        !.status = exc.status,
                                        !.detail = exc.detail]]

\* app.py:63-99: a request arrives; predict() runs up to the await of
\* wait_for, where process_image has submitted the handler call
PredictEnter(r) ==
    /\ req[r].pc = "idle"
    /\ \E u \in Uploads :
         LET q == [req[r] EXCEPT
                     !.upload = u,
                     !.saw_handler = (handler # 0 /\ inst[handler].initialized # "unset"),
                     !.after_timeout = (\E x \in Reqs : req[x].timed_out)]
         IN  IF ~q.saw_handler
             THEN /\ Respond(r, q, HTTPException(503, "Server is still initializing"))
                  /\ job' = job
             ELSE IF ~u.is_image
             THEN /\ Respond(r, q, HTTPException(400, "File must be an image"))
                  /\ job' = job
             ELSE IF u.data.len > file_size_limit
             THEN /\ Respond(r, q, predict_except(HTTPException(413, "File too large")))
                  /\ job' = job
             ELSE /\ req' = [req EXCEPT ![r] = [q EXCEPT !.pc = "waiting"]]
                  /\ job' = [job EXCEPT ![r] = [NoJob EXCEPT !.state = "queued"]]
    /\ UNCHANGED <<cls_instance, inst, loads, ctors, pc, self, obs, lastCall, handler>>
    /\ UNCHANGED <<preVars, genVars>>

\* an executor thread takes the job and enters handler.__call__
JobStart(r) ==
    /\ job[r].state = "queued"
    /\ job' = [job EXCEPT ![r].state = "running"]
    /\ UNCHANGED <<cls_instance, inst, loads, ctors, pc, self, obs, lastCall, handler, req>>
    /\ UNCHANGED <<preVars, genVars>>

\* the executor thread finishes handler.__call__ (handler.py:71-129)
JobFinish(r) ==
    /\ job[r].state = "running"
    /\ \E det \in ProbeDets \cup {NotInvoked} :
         LET ret == Call(inst[handler], req[r].upload.data, det) IN
         /\ ret.inferred <=> det # NotInvoked
         /\ job' = [job EXCEPT ![r] = [state |-> "done", det |-> det, ret |-> ret]]
    /\ inst' = [inst EXCEPT ![handler].last_used = "call"]
    /\ UNCHANGED <<cls_instance, loads, ctors, pc, self, obs, lastCall, handler, req>>
    /\ UNCHANGED <<preVars, genVars>>

\* app.py:107-116: wait_for returns the handler's dict
Deliver(r) ==
    /\ req[r].pc = "waiting"
    /\ job[r].state = "done"
    /\ LET response == job[r].ret.out IN
       IF "raised" \in DOMAIN response
       THEN Respond(r, req[r], predict_except(RuntimeError))
       ELSE IF "error" \in DOMAIN response
       THEN Respond(r, req[r], predict_except(HTTPException(500, response.error)))
       ELSE Respond(r, req[r], [type |-> "JSONResponse", status |-> 200, detail |-> "count"])
    /\ UNCHANGED <<cls_instance, inst, loads, ctors, pc, self, obs, lastCall, handler, job>>
    /\ UNCHANGED <<preVars, genVars>>

\* mutant of AbandonJob: the running job is killed with the wait
AbandonJobKills(j) == [j EXCEPT !.state = "cancelled"]

\* what cancelling the wait does to the job: a job no thread has taken is
\* cancelled, a running one cannot be and runs on
AbandonJob(j) ==
    IF j.state = "queued" THEN [j EXCEPT !.state = "cancelled"] ELSE j

\* app.py:94-105: 30 s pass before the job is done; wait_for cancels the
\* wait and raises TimeoutError, and line 102 raises HTTPException(504)
\* inside the outer try
Timeout(r) ==
    /\ req[r].pc = "waiting"
    /\ job[r].state \in {"queued", "running"}
    /\ Respond(r, [req[r] EXCEPT !.timed_out = TRUE],
               predict_except(HTTPException(504, "Processing timeout")))
    /\ job' = [job EXCEPT ![r] = AbandonJob(job[r])]
    /\ UNCHANGED <<cls_instance, inst, loads, ctors, pc, self, obs, lastCall, handler>>
    /\ UNCHANGED <<preVars, genVars>>

NextPredict ==
    \/ StartupBegin
    \/ NewCreate(1)
    \/ NewReturn(1)
    \/ InitCheck(1)
    \/ ModelCheck(1)
    \/ Load(1)
    \/ Finish(1)
    \/ StartupAssign
    \/ \E r \in Reqs :
        \/ PredictEnter(r)
        \/ JobStart(r)
        \/ JobFinish(r)
        \/ Deliver(r)
        \/ Timeout(r)

SpecPredict == Init /\ [][NextPredict]_vars

(***************************************************************************)
(* The heatmap generator (heatmap_gen.py): the regions loaded when the     *)
(* module is imported, and the matching of image files to regions.         *)
(* Strings are sequences of characters.                                    *)
(***************************************************************************)
Chars == {"a", "B", " "}
Strings(lo, hi) == UNION {[1..n -> Chars] : n \in lo..hi}
\* region names (also the empty one) and the names os.listdir can give
RegionNames == Strings(0, 2)
FileNames == Strings(1, MaxFileLen)
RegionLists == UNION {[1..n -> [name : RegionNames]] : n \in 0..MaxRegions}

\* heatmap_gen.py:9
IMAGE_DIR == <<"t", "e", "s", "t", "s", "/", "i", "m", "a", "g", "e", "s">>

\* str.lower()
lower_char(c) == IF c = "B" THEN "b" ELSE IF c = ".PNG" THEN ".png" ELSE c
lower(s) == [i \in DOMAIN s |-> lower_char(s[i])]

\* str.replace(" ", "")
IsNotSpace(c) == c # " "
remove_spaces(s) == SelectSeq(s, IsNotSpace)

\* a in b, for strings
contains(b, a) ==
    \E i \in 0..(Len(b) - Len(a)) : SubSeq(b, i + 1, i + Len(a)) = a

\* os.path.join(dir, file) (line 129) and os.path.basename(path) (line 38)
path_join(dir, file) == dir \o <<"/">> \o file
basename(path) ==
    LET slashes == {i \in DOMAIN path : path[i] = "/"}
        last == IF slashes = {} THEN 0 ELSE CHOOSE i \in slashes : \A j \in slashes : j <= i
    IN  SubSeq(path, last + 1, Len(path))

\* mutant of region_key: the name is not lowercased
region_key_cased(name) == remove_spaces(name)

\* line 40: region["name"].replace(" ", "").lower()
region_key(name) == lower(remove_spaces(name))

\* assign_image_to_region returns None
NoRegion == <<"None">>

\* lines 39-42: the loop over regions, from the k-th on
RECURSIVE first_match(_, _, _)
first_match(rs, filename, k) ==
    IF k > Len(rs) THEN NoRegion
    ELSE IF contains(filename, region_key(rs[k].name)) THEN rs[k].name
    ELSE first_match(rs, filename, k + 1)

\* heatmap_gen.py:32-42
assign_image_to_region(image_path) ==
    first_match(regions, lower(basename(image_path)), 1)

\* heatmap_gen.py:17-20: the regions are loaded once, at import; line 127:
\* image_file is a file of the image directory
InitMatch ==
    /\ cls_instance = 0
    /\ inst = [i \in InstIds |-> NoAttrs]
    /\ loads = 0
    /\ ctors = 0
    /\ pc = [c \in Callers |-> "idle"]
    /\ self = [c \in Callers |-> 0]
    /\ obs = [c \in Callers |-> "none"]
    /\ lastCall = NoCall
    /\ handler = 0
    /\ req = [r \in Reqs |-> NoReq]
    /\ job = [r \in Reqs |-> NoJob]
    /\ regions \in RegionLists
    /\ image_file \in FileNames
    /\ region_name = NotAssigned
    /\ PreIdle
    /\ DrvIdle
    /\ RenderIdle

\* lines 129-130: region_name = assign_image_to_region(image_path)
AssignRegion ==
    /\ region_name = NotAssigned
    /\ region_name' = assign_image_to_region(path_join(IMAGE_DIR, image_file))
    /\ UNCHANGED <<hVars, preVars, appVars, regions, image_file, drvVars, renderVars>>

NextMatch == AssignRegion

SpecMatch == InitMatch /\ [][NextMatch]_vars

(***************************************************************************)
(* The import of heatmap_gen.py (lines 17-30) and the batch driver main()  *)
(* (lines 113-145).  A region is the JSON object of config/regions.json,   *)
(* which may lack a key.  A file name is the characters of its stem and    *)
(* its extension.                                                          *)
(***************************************************************************)

\* the region lists the import is run on: none, one, two in both orders,
\* two of one name, one without x alone and after another, one without
\* name alone and after another
RegionA == [name |-> <<"a">>, x |-> 0, y |-> 0, width |-> 10, height |-> 20]
RegionA2 == [name |-> <<"a">>, x |-> 30, y |-> 40, width |-> 50, height |-> 60]
RegionB == [name |-> <<"B">>, x |-> 30, y |-> 40, width |-> 50, height |-> 60]
RegionNoX == [name |-> <<"B">>, y |-> 40, width |-> 50, height |-> 60]
RegionNoName == [x |-> 0, y |-> 0, width |-> 10, height |-> 20]
ConfigLists ==
    {<<>>, <<RegionA>>, <<RegionA, RegionB>>, <<RegionB, RegionA>>,
     <<RegionA, RegionA2>>, <<RegionNoX>>, <<RegionA, RegionNoX>>,
     <<RegionNoName>>, <<RegionA, RegionNoName>>}

\* config/regions.json: absent, not JSON, JSON without a "regions" key, or
\* JSON whose "regions" is a list of regions
Configs ==
    {[kind |-> k, regions |-> <<>>] : k \in {"missing", "unparsable", "no regions key"}}
    \cup {[kind |-> "json", regions |-> rs] : rs \in ConfigLists}

GenFiles ==
    {<<"a", ".jpg">>, <<"a", "B", ".PNG">>, <<" ", ".jpeg">>, <<"a", ".txt">>}
\* os.listdir(IMAGE_DIR): distinct files, in any order
Listings ==
    {l \in UNION {[1..n -> GenFiles] : n \in 0..MaxImages} :
        \A i, j \in DOMAIN l : l[i] = l[j] => i = j}

\* what requests.post(API_ENDPOINT, ...) does: a 2xx response whose JSON
\* body has a count or has none, a non-2xx response, no connection, a body
\* that is not JSON
CountValues == {3}
Replies ==
    {[kind |-> "ok", count |-> c] : c \in CountValues}
    \cup {[kind |-> k, count |-> 0] :
            k \in {"no count", "status error", "connection error", "invalid json"}}

\* the base document and the heatmap are sequences of tags
OpenTag == [t |-> "<svg>"]
CloseTag == [t |-> "</svg>"]
Docs == UNION {[1..n -> {OpenTag, CloseTag}] : n \in 0..MaxDocLen}
\* a heatmap written earlier
OldDoc == <<OpenTag, [t |-> "old"], CloseTag>>

HasName(region) == "name" \in DOMAIN region
HasGeometry(region) == {"x", "y", "width", "height"} \subseteq DOMAIN region
Names(rs) == {rs[k].name : k \in DOMAIN rs}

\* heatmap_gen.py:17-30, run when the module is imported.  A missing or
\* unparsable file is reported and the process exits (lines 22-27); a
\* missing "regions" key (line 20) or "name" key (line 30) raises a
\* KeyError that nothing catches.
LoadRegions ==
    /\ gen_pc = "import"
    /\ IF config.kind \in {"missing", "unparsable"}
       THEN gen_pc' = "exit" /\ UNCHANGED <<regions, crowd_counts>>
       ELSE IF config.kind = "no regions key"
       THEN gen_pc' = "import KeyError" /\ UNCHANGED <<regions, crowd_counts>>
       ELSE /\ regions' = config.regions
            /\ IF \A k \in DOMAIN config.regions : HasName(config.regions[k])
               THEN /\ crowd_counts' = [n \in Names(config.regions) |-> 0]
                    /\ gen_pc' = "idle"
               ELSE /\ gen_pc' = "import KeyError"
                    /\ UNCHANGED crowd_counts
    /\ UNCHANGED <<hVars, preVars, appVars, image_file, region_name, renderVars>>
    /\ UNCHANGED <<config, processed_images, todo, reply, log, runs>>

\* line 128: image_file.lower().endswith(('.png', '.jpg', '.jpeg'))
is_image(file) == lower(file)[Len(file)] \in {".png", ".jpg", ".jpeg"}

\* line 131: if region_name
truthy(name) == name # NoRegion /\ name # <<>>

\* lines 44-62: the count of the response, 0 when the body has none and 0
\* when the request failed
get_crowd_count(rp) == IF rp.kind = "ok" THEN rp.count ELSE 0

\* mutant of accumulate: the count is added to every region
accumulate_all(counts, name, count) == [n \in DOMAIN counts |-> counts[n] + count]

\* line 133: crowd_counts[region_name] += count
accumulate(counts, name, count) == [counts EXCEPT ![name] = @ + count]

(***************************************************************************)
(* generate_heatmap (lines 64-111).  A rectangle of the overlay is the     *)
(* values the f-string of lines 93-96 puts into the <rect> element.        *)
(***************************************************************************)
\* mutant of color: the tiers end below 7 and below 10
color_strict(count) ==
    IF count < LowMax THEN "#00FF00"
    ELSE IF count < MediumMax THEN "#FFA500"
    ELSE "#FF0000"

\* lines 81-89
color(count) ==
    IF count <= LowMax THEN "#00FF00"
    ELSE IF count <= MediumMax THEN "#FFA500"
    ELSE "#FF0000"
opacity == "0.6"

\* line 78: crowd_counts.get(region["name"], 0)
count_of(region) ==
    IF region.name \in DOMAIN crowd_counts THEN crowd_counts[region.name] ELSE 0

\* lines 92-96
heatmap_rect(region) ==
    [t |-> "rect", x |-> region.x, y |-> region.y, width |-> region.width,
     height |-> region.height, fill |-> color(count_of(region)),
     opacity |-> opacity]

\* lines 76-97: the rectangles of the regions from the k-th on
RECURSIVE heatmap_rects(_, _)
heatmap_rects(rs, k) ==
    IF k > Len(rs) THEN <<>>
    ELSE (IF count_of(rs[k]) > 0 THEN <<heatmap_rect(rs[k])>> ELSE <<>>)
         \o heatmap_rects(rs, k + 1)

\* lines 93-94 raise a KeyError for a region that is to be drawn and lacks
\* a key
rect_raises(rs) ==
    \E k \in DOMAIN rs : count_of(rs[k]) > 0 /\ ~HasGeometry(rs[k])

\* mutant of has_closing_tag: the tag is not looked for
has_closing_tag_unchecked(svg) == TRUE

\* line 100: "</svg>" in svg_content
has_closing_tag(svg) == \E i \in DOMAIN svg : svg[i] = CloseTag

\* line 101: svg_content.replace("</svg>", block + "</svg>")
RECURSIVE replace(_, _)
replace(svg, block) ==
    IF svg = <<>> THEN <<>>
    ELSE (IF Head(svg) = CloseTag THEN block \o <<CloseTag>> ELSE <<Head(svg)>>)
         \o replace(Tail(svg), block)

\* what open(HEATMAP_OUTPUT_PATH, "w") and write do: the file is written,
\* open fails, or write fails after open has emptied the file
WriteOutcomes == {"saved", "open failed", "write failed"}

\* lines 64-111: what generate_heatmap() does when map.svg holds svg (NoFile:
\* there is none) and the write goes as w: its outcome, the rectangles it
\* built and the heatmap file afterwards
generate_heatmap(svg, w) ==
    IF svg = NoFile
    THEN [result |-> "map not found", rects |-> <<>>, file |-> heatmap_file]
    ELSE IF rect_raises(regions)
    THEN [result |-> "KeyError", rects |-> <<>>, file |-> heatmap_file]
    ELSE LET block == heatmap_rects(regions, 1) IN
         IF ~has_closing_tag(svg)
         THEN [result |-> "tag not found", rects |-> block, file |-> heatmap_file]
         ELSE IF w = "saved"
         THEN [result |-> "saved", rects |-> block, file |-> replace(svg, block)]
         ELSE IF w = "open failed"
         THEN [result |-> "not saved", rects |-> block, file |-> heatmap_file]
         ELSE [result |-> "not saved", rects |-> block, file |-> <<>>]

\* generate_heatmap() runs; map.svg is one of docs or is not there
Render(docs) ==
    \E svg \in docs \cup {NoFile}, w \in WriteOutcomes :
        LET r == generate_heatmap(svg, w) IN
        /\ svg_content' = svg
        /\ rendered' = [result |-> r.result, rects |-> r.rects]
        /\ heatmap_file' = r.file

\* the module is about to be imported
InitMain ==
    /\ HandlerIdle
    /\ PreIdle
    /\ regions = <<>>
    /\ image_file = <<>>
    /\ region_name = NotAssigned
    /\ config \in Configs
    /\ gen_pc = "import"
    /\ crowd_counts = <<>>
    /\ processed_images = 0
    /\ todo = <<>>
    /\ reply = NoReply
    /\ log = <<>>
    /\ runs = 0
    /\ RenderIdle

\* lines 113-127: main() is called: the server is asked for "/" and main
\* returns when it does not answer 200; otherwise processed_images = 0 and
\* the directory is listed, which raises when it does not exist
MainStart ==
    /\ gen_pc = "idle"
    /\ runs < MaxRuns
    /\ runs' = runs + 1
    /\ \/ UNCHANGED <<gen_pc, processed_images, todo, log>>
       \/ /\ gen_pc' = "FileNotFoundError"
          /\ processed_images' = 0
          /\ UNCHANGED <<todo, log>>
       \/ /\ gen_pc' = "loop"
          /\ processed_images' = 0
          /\ todo' \in Listings
          /\ log' = <<>>
    /\ UNCHANGED <<hVars, preVars, appVars, regions, image_file, region_name, renderVars>>
    /\ UNCHANGED <<config, crowd_counts, reply>>

\* main() returns: its locals are gone
MainReturns ==
    /\ image_file' = <<>>
    /\ region_name' = NotAssigned
    /\ reply' = NoReply
    /\ processed_images' = 0

\* lines 127-137: one iteration of the loop over the files
ProcessImage ==
    /\ gen_pc = "loop"
    /\ todo # <<>>
    /\ image_file' = Head(todo)
    /\ todo' = Tail(todo)
    /\ IF is_image(Head(todo))
       THEN /\ region_name' = assign_image_to_region(path_join(IMAGE_DIR, Head(todo)))
            /\ IF truthy(region_name')
               THEN \E rp \in Replies :
                       /\ reply' = rp
                       /\ crowd_counts' = accumulate(crowd_counts, region_name',
                                                      get_crowd_count(rp))
                       /\ log' = Append(log, <<region_name', get_crowd_count(rp)>>)
                       /\ processed_images' = processed_images + 1
               ELSE UNCHANGED <<reply, crowd_counts, log, processed_images>>
       ELSE UNCHANGED <<region_name, reply, crowd_counts, log, processed_images>>
    /\ UNCHANGED <<hVars, preVars, appVars, regions, renderVars>>
    /\ UNCHANGED <<config, gen_pc, runs>>

\* the base documents main() finds: with the closing tag and without
MainDocs == {<<OpenTag, CloseTag>>, <<OpenTag>>}

\* lines 139-145: the loop is over and generate_heatmap() runs; a KeyError
\* it raises leaves main()
MainFinish ==
    /\ gen_pc = "loop"
    /\ todo = <<>>
    /\ Render(MainDocs)
    /\ gen_pc' = IF rendered'.result = "KeyError" THEN "KeyError" ELSE "idle"
    /\ MainReturns
    /\ UNCHANGED <<hVars, preVars, appVars, regions>>
    /\ UNCHANGED <<config, crowd_counts, todo, log, runs>>

NextMain ==
    \/ LoadRegions
    \/ MainStart
    \/ ProcessImage
    \/ MainFinish

SpecMain == InitMain /\ [][NextMain]_vars

(***************************************************************************)
(* generate_heatmap() alone, on every base document of Docs, for regions   *)
(* that the import accepted and counts around the tiers.                   *)
(***************************************************************************)
TierCounts == {0, 1, LowMax, LowMax + 1, MediumMax, MediumMax + 1, 12}
\* the regions the import accepts: all but the one without a name
GenRegions == {RegionA, RegionA2, RegionB, RegionNoX}
LoadedLists == UNION {[1..n -> GenRegions] : n \in 0..MaxRegions}

InitRender ==
    /\ HandlerIdle
    /\ PreIdle
    /\ regions \in LoadedLists
    /\ image_file = <<>>
    /\ region_name = NotAssigned
    /\ config = [kind |-> "json", regions |-> regions]
    /\ gen_pc = "idle"
    /\ crowd_counts \in [Names(regions) -> TierCounts]
    /\ processed_images = 0
    /\ todo = <<>>
    /\ reply = NoReply
    /\ log = <<>>
    /\ runs = 0
    /\ svg_content = NoFile
    /\ heatmap_file \in {NoFile, OldDoc}
    /\ rendered = NoRender

GenerateHeatmap ==
    /\ rendered = NoRender
    /\ Render(Docs)
    /\ UNCHANGED <<hVars, preVars, appVars, regions, image_file, region_name, drvVars>>

NextRender == GenerateHeatmap

SpecRender == InitRender /\ [][NextRender]_vars

(***************************************************************************)
(* The claims.  The error kinds of the specification name the messages of  *)
(* __call__.                                                               *)
(***************************************************************************)
ModelUnavailable == Err("Model not initialized")
MissingInput == Err("No 'inputs' key in request data")
ImageTooLarge == Err("Image size too large")
InvalidImage == Err("Failed to process image")
InferenceFailed == Err("Model inference failed")

Called == lastCall.inst # 0
HasCount(o) == "count" \in DOMAIN o
HasError(o) == "error" \in DOMAIN o
AllConstructed == \A c \in Callers : pc[c] \in {"returned", "raised"}

\* C1: when every caller has constructed the handler, the model load has run
\* exactly once and all callers observed the same terminal state.
C1_OneLoadSameState ==
    AllConstructed =>
        /\ loads = 1
        /\ \A c, d \in Callers : obs[c] = obs[d]

\* C2: once an instance has failed to initialize it stays failed, the load is
\* never run again, and every call on it returns ModelUnavailable without
\* opening the image or invoking the detector.
C2_FailedIsPermanent ==
    [][\A i \in InstIds :
          inst[i].initialized = "False" =>
              /\ inst'[i].initialized = "False"
              /\ loads' = loads
              /\ (lastCall' # lastCall /\ lastCall'.inst = i) =>
                    /\ lastCall'.ret.out = ModelUnavailable
                    /\ ~lastCall'.ret.opened
                    /\ ~lastCall'.ret.inferred]_vars

\* C3: every call returns a dict that holds exactly one of "count" and
\* "error", and never raises.
C3_ExactlyOneOfCountOrError ==
    Called =>
        /\ lastCall.ret.out # Raised
        /\ HasCount(lastCall.ret.out) # HasError(lastCall.ret.out)

\* the call took the except clause of line 122 (inputs is None) and still
\* returned an error dict
C3_Witness ==
    /\ Called
    /\ lastCall.data.key = "none"
    /\ lastCall.state = "Ready"
    /\ HasError(lastCall.ret.out)

NotDecodable(data) == data.key = "bytes" /\ ~data.decodes

\* C4 as stated: every call on bytes that do not decode returns InvalidImage.
C4_AlwaysInvalidImage ==
    (Called /\ NotDecodable(lastCall.data)) => lastCall.ret.out = InvalidImage

\* C4 as amended: a call on bytes that do not decode never returns a count,
\* and returns InvalidImage when the handler is Ready and the bytes are at
\* most 10 MiB long.
C4_InvalidImageWhenReadyAndInLimit ==
    (Called /\ NotDecodable(lastCall.data)) =>
        /\ ~HasCount(lastCall.ret.out)
        /\ (lastCall.state = "Ready" /\ lastCall.data.len <= 10 * MiB) =>
              lastCall.ret.out = InvalidImage

\* exactly 10 MiB of bytes that do not decode, on a Ready handler
C4_Witness ==
    /\ Called
    /\ NotDecodable(lastCall.data)
    /\ lastCall.state = "Ready"
    /\ lastCall.data.len = 10 * MiB
    /\ lastCall.ret.out = InvalidImage

Persons(boxes) == Cardinality({k \in DOMAIN boxes : boxes[k] = 0})
Readable(boxes) == \A k \in DOMAIN boxes : boxes[k] \in {0, 1}

\* C5: when the detector returns results whose first result has readable
\* classes, the call returns a count, with no error, equal to the number of
\* class-0 boxes of the first result (0 when there is none).
C5_CountsPersonsOfFirstResult ==
    (/\ Called
     /\ lastCall.det.kind = "returns"
     /\ lastCall.det.results # <<>>
     /\ Readable(lastCall.det.results[1])) =>
        /\ HasCount(lastCall.ret.out)
        /\ ~HasError(lastCall.ret.out)
        /\ lastCall.ret.out.count = Persons(lastCall.det.results[1])

\* boxes of class 1 and 0 in the first result, a person in the second: 1
C5_Witness ==
    /\ Called
    /\ lastCall.state = "Ready"
    /\ lastCall.det = DetReturns(<< <<1, 0>>, <<0>> >>)
    /\ lastCall.ret.out.count = 1

\* only other-class boxes: a count of 0, no error
C5_WitnessZero ==
    /\ Called
    /\ lastCall.det = DetReturns(<< <<1, 1>> >>)
    /\ lastCall.ret.out.count = 0

\* C6: on a Ready handler, bytes longer than 10 MiB return ImageTooLarge with
\* the image never opened and the detector never invoked; exactly 10 MiB is
\* not rejected for size.
C6_TooLargeOnlyAboveLimit ==
    (Called /\ lastCall.state = "Ready" /\ lastCall.data.key = "bytes") =>
        /\ lastCall.data.len > 10 * MiB =>
              /\ lastCall.ret.out = ImageTooLarge
              /\ ~lastCall.ret.opened
              /\ ~lastCall.ret.inferred
        /\ lastCall.data.len <= 10 * MiB => lastCall.ret.out # ImageTooLarge

\* an image of exactly 10 MiB is counted
C6_Witness ==
    /\ Called
    /\ lastCall.state = "Ready"
    /\ lastCall.data.len = 10 * MiB
    /\ HasCount(lastCall.ret.out)

\* 11 MiB that would decode are rejected unopened
C6_WitnessElevenMiB ==
    /\ Called
    /\ lastCall.state = "Ready"
    /\ lastCall.data.len = 11 * MiB
    /\ lastCall.data.decodes
    /\ lastCall.ret.out = ImageTooLarge

EmptyOrAbsent(data) == data.key = "absent" \/ (data.key = "bytes" /\ data.len = 0)

\* C7 as stated: on a Ready handler, empty or absent image bytes return
\* MissingInput before the image is opened.
C7_EmptyOrAbsentIsMissingInput ==
    (Called /\ lastCall.state = "Ready" /\ EmptyOrAbsent(lastCall.data)) =>
        /\ lastCall.ret.out = MissingInput
        /\ ~lastCall.ret.opened

\* C7 as amended: on a Ready handler, data without the "inputs" key returns
\* MissingInput before the image is opened; empty bytes are handed to
\* Image.open and return InvalidImage.
C7_AbsentIsMissingEmptyIsInvalid ==
    (Called /\ lastCall.state = "Ready") =>
        /\ lastCall.data.key = "absent" =>
              (lastCall.ret.out = MissingInput /\ ~lastCall.ret.opened)
        /\ (lastCall.data.key = "bytes" /\ lastCall.data.len = 0) =>
              (lastCall.ret.out = InvalidImage /\ lastCall.ret.opened)

\* empty bytes on a Ready handler: opened, InvalidImage
C7_Witness ==
    /\ Called
    /\ lastCall.state = "Ready"
    /\ lastCall.data.key = "bytes"
    /\ lastCall.data.len = 0
    /\ lastCall.ret.opened
    /\ lastCall.ret.out = InvalidImage

\* data without the key on a Ready handler: MissingInput
C7_WitnessAbsent ==
    /\ Called
    /\ lastCall.state = "Ready"
    /\ lastCall.data.key = "absent"
    /\ lastCall.ret.out = MissingInput

Responded(r) == req[r].pc = "responded"

\* the status the claim assigns to a request
ClaimedStatus(r) ==
    IF ~req[r].saw_handler THEN 503
    ELSE IF ~req[r].upload.is_image THEN 400
    ELSE IF req[r].upload.data.len > 10 * MiB THEN 413
    ELSE IF req[r].timed_out THEN 504
    ELSE IF HasError(job[r].ret.out) THEN 500
    ELSE 200

\* C8: the status delivered is 503 without a handler, 400 for an upload that
\* is not an image, 413 above 10 MiB, 504 on a timeout and 500 when the
\* handler returns an error.
C8_StatusCodes ==
    \A r \in Reqs : Responded(r) => req[r].status = ClaimedStatus(r)

TimesOut(r) == ~req[r].timed_out /\ req'[r].timed_out

\* C9: a step in which a request times out changes neither the handler nor
\* any instance; a job that is running then keeps running until it is done,
\* and its result never reaches the response; a handler the app holds stays
\* Ready, and a request that arrives after a timeout and whose image the
\* detector reads gets its count.
C9_TimeoutLeavesHandlerIntact ==
    /\ [][\A r \in Reqs :
            /\ TimesOut(r) =>
                  (inst' = inst /\ handler' = handler /\ cls_instance' = cls_instance)
            /\ (job[r].state = "running") => job'[r].state \in {"running", "done"}
            /\ Responded(r) => req'[r] = req[r]]_vars
    /\ [](\A r \in Reqs :
            /\ req[r].timed_out =>
                  (Responded(r) /\ req[r].status # 200 /\ StateOf(inst[handler]) = "Ready")
            /\ (/\ req[r].after_timeout
                /\ job[r].state = "done"
                /\ job[r].det.kind = "returns"
                /\ job[r].det.results # <<>>
                /\ Readable(job[r].det.results[1])) =>
                  /\ HasCount(job[r].ret.out)
                  /\ job[r].ret.out.count = Persons(job[r].det.results[1]))

\* a request timed out while its job was running, the job has since
\* finished with a count that was not delivered, and a later request was
\* answered 200
C9_Witness ==
    \E r, x \in Reqs :
        /\ req[r].timed_out
        /\ job[r].state = "done"
        /\ HasCount(job[r].ret.out)
        /\ req[r].status # 200
        /\ req[x].after_timeout
        /\ Responded(x)
        /\ req[x].status = 200

\* the regions whose name, lowercased and without spaces, is in string f
Matching(f) ==
    {k \in DOMAIN regions : contains(f, lower(remove_spaces(regions[k].name)))}
FirstOf(ks) == CHOOSE k \in ks : \A j \in ks : k <= j
Assigned == region_name # NotAssigned

\* C10 as stated: the result is the first region, in definition order, whose
\* name (lowercased, spaces stripped) is a substring of the file name
\* (lowercased, spaces stripped), and none when there is no such region.
C10_FirstMatchOnStrippedFilename ==
    Assigned =>
        LET ks == Matching(remove_spaces(lower(image_file))) IN
        region_name = IF ks = {} THEN NoRegion ELSE regions[FirstOf(ks)].name

\* C10 as amended: the file name is lowercased and its spaces are kept.
C10_FirstMatchOnLowercasedFilename ==
    Assigned =>
        LET ks == Matching(lower(image_file)) IN
        region_name = IF ks = {} THEN NoRegion ELSE regions[FirstOf(ks)].name

\* two regions with different names both match, and the first is returned
C10_Witness ==
    /\ Assigned
    /\ Len(regions) = 2
    /\ regions[1].name # regions[2].name
    /\ Matching(lower(image_file)) = {1, 2}
    /\ region_name = regions[1].name
    /\ remove_spaces(regions[1].name) # regions[1].name

\* what a caller may find in an instance it holds: the flag is set, and a
\* flag that says ready comes with a model
Terminal(attrs) ==
    /\ attrs.initialized # "unset"
    /\ attrs.initialized = "True" => attrs.model # 0

\* C17: in every interleaving of constructions and calls, a caller that got
\* the handler back from EndpointHandler() holds an instance whose flag is
\* set and, if the flag says ready, whose model is loaded; no call finds the
\* flag unset.
C17_NoPartiallyInitialized ==
    /\ \A c \in Callers : pc[c] = "returned" => Terminal(inst[self[c]])
    /\ Called => lastCall.state \in {"Ready", "Failed"}

\* one caller holds the shared instance and has called it while the other
\* is still inside __init__ on the same instance
C17_Witness ==
    \E c, d \in Callers :
        /\ pc[c] = "returned"
        /\ self[d] = self[c]
        /\ pc[d] \in {"load", "finish"}
        /\ lastCall.inst = self[c]

MalformedDetection == Err("Failed to process detection results")

\* C18 as stated: on a Ready handler with a decodable image, a detector that
\* returns no result entries, or a first result with a class that cannot be
\* read, gives a count of 0 and no error.
C18_EmptyOrMalformedIsZero ==
    (/\ Called
     /\ lastCall.state = "Ready"
     /\ lastCall.det.kind = "returns"
     /\ \/ lastCall.det.results = <<>>
        \/ ~Readable(lastCall.det.results[1])) =>
        /\ HasCount(lastCall.ret.out)
        /\ ~HasError(lastCall.ret.out)
        /\ lastCall.ret.out.count = 0

\* C18: on a Ready handler with a decodable image, a detector that returns
\* no result entries gives a count of 0 and no error; a first result with a
\* class that cannot be read gives the error "Failed to process detection
\* results" and no count.
C18_EmptyIsZeroMalformedIsError ==
    (/\ Called
     /\ lastCall.state = "Ready"
     /\ lastCall.det.kind = "returns") =>
        /\ lastCall.det.results = <<>> =>
              /\ HasCount(lastCall.ret.out)
              /\ ~HasError(lastCall.ret.out)
              /\ lastCall.ret.out.count = 0
        /\ (lastCall.det.results # <<>> /\ ~Readable(lastCall.det.results[1])) =>
              lastCall.ret.out = MalformedDetection

\* a person box and a box whose class cannot be read: the error
C18_Witness ==
    /\ Called
    /\ lastCall.state = "Ready"
    /\ lastCall.det = DetReturns(<< <<PersonClass, BadCls>> >>)
    /\ lastCall.ret.out = MalformedDetection

\* no result entries: a count of 0
C18_WitnessEmpty ==
    /\ Called
    /\ lastCall.state = "Ready"
    /\ lastCall.det = DetReturns(<<>>)
    /\ lastCall.ret.out = [count |-> 0]

\* C19: an image with no side above 640 keeps its size; otherwise the
\* resize succeeds, the longer side of the new size is exactly 640 and the
\* shorter side is the scaled value, at least 1.
C19_LongerSide640ShorterAtLeast1 ==
    preprocessed # NotPreprocessed =>
        LET m == Max2(image[1], image[2])
            short == Min2(image[1], image[2])
            out == preprocessed.new_size
        IN  /\ ~preprocessed.raised
            /\ IF m <= max_size THEN out = image
               ELSE /\ Max2(out[1], out[2]) = max_size
                    /\ Min2(out[1], out[2]) >= 1
                    /\ Min2(out[1], out[2]) * m <= short * max_size
                    /\ short * max_size < (Min2(out[1], out[2]) + 1) * m

\* the two ways C19 fails: a side of 0, and a longer side of 639
C19_ZeroSide ==
    /\ image = <<1300, 1>>
    /\ preprocessed = [new_size |-> <<640, 0>>, raised |-> TRUE]
C19_LongerSide639 ==
    /\ image = <<1077, 320>>
    /\ preprocessed.new_size[1] = 639
    /\ ~preprocessed.raised

Imported == gen_pc \notin {"not imported", "import"}
ImportFailed == gen_pc \in {"exit", "import KeyError"}
Required == {"name", "x", "y", "width", "height"}
Incomplete(rs) == \E k \in DOMAIN rs : ~(Required \subseteq DOMAIN rs[k])
Duplicated(rs) ==
    \E i, j \in DOMAIN rs :
        /\ i # j
        /\ "name" \in DOMAIN rs[i]
        /\ "name" \in DOMAIN rs[j]
        /\ rs[i].name = rs[j].name

\* C11: when the region document has two regions of the same name, or a
\* region without one of name, x, y, width, height, the import fails (it
\* exits or raises); it never ends with the regions loaded.
C11_RejectsDuplicatesAndIncomplete ==
    (/\ Imported
     /\ config.kind = "json"
     /\ Duplicated(config.regions) \/ Incomplete(config.regions)) => ImportFailed

\* the ways C11 fails: two regions named "a" loaded and merged into one
\* total, and a region without x loaded
C11_DuplicatesMerged ==
    /\ gen_pc = "idle"
    /\ Len(regions) = 2
    /\ regions[1].name = regions[2].name
    /\ DOMAIN crowd_counts = {regions[1].name}
C11_IncompleteLoaded ==
    /\ gen_pc = "idle"
    /\ Len(regions) = 1
    /\ "x" \notin DOMAIN regions[1]

\* the sum of the counts that log holds for the region called n
RECURSIVE SumFor(_, _)
SumFor(l, n) ==
    IF l = <<>> THEN 0
    ELSE (IF Head(l)[1] = n THEN Head(l)[2] ELSE 0) + SumFor(Tail(l), n)

\* C12: while main() runs and after it, the keys of crowd_counts are the
\* names of the loaded regions and the total of each is the sum of the
\* counts line 133 added to it in this run of main(); no total ever
\* decreases and no key is ever removed.
C12_TotalsAreSumsOfRun ==
    /\ [](gen_pc \in {"idle", "loop"} =>
            /\ DOMAIN crowd_counts = {regions[k].name : k \in DOMAIN regions}
            /\ \A n \in DOMAIN crowd_counts : crowd_counts[n] = SumFor(log, n))
    /\ [][\A n \in DOMAIN crowd_counts :
              /\ n \in DOMAIN crowd_counts'
              /\ crowd_counts'[n] >= crowd_counts[n]]_vars

\* within the first run of main() the totals are the sums of that run
C12_FirstRunSums ==
    (gen_pc \in {"idle", "loop"} /\ runs <= 1) =>
        \A n \in DOMAIN crowd_counts : crowd_counts[n] = SumFor(log, n)

\* C13: whenever main() is invoked, every total of crowd_counts is zero.
C13_RunStartsAtZero ==
    [][(gen_pc = "idle" /\ runs' = runs + 1) =>
          \A n \in DOMAIN crowd_counts : crowd_counts[n] = 0]_vars

\* the second run of main() has started its loop with a total left over
\* from the first
C13_CarriedOver ==
    /\ gen_pc = "loop"
    /\ runs = 2
    /\ log = <<>>
    /\ \E n \in DOMAIN crowd_counts : crowd_counts[n] > 0

Drawn == {k \in DOMAIN regions : crowd_counts[regions[k].name] > 0}
\* the i-th region, in definition order, of those with a count above 0
DrawnAt(i) == CHOOSE k \in Drawn : Cardinality({j \in Drawn : j <= k}) = i
TierOf(count) == IF count <= 7 THEN "low" ELSE IF count <= 10 THEN "medium" ELSE "high"
FillOf(tier) == [low |-> "#00FF00", medium |-> "#FFA500", high |-> "#FF0000"][tier]
LoopCompleted == rendered.result \in {"saved", "not saved", "tag not found"}

\* C14: when the loop over the regions completes, it has built one
\* rectangle for each region with a count above 0, in definition order, and
\* none for a region with count 0; the rectangle has the region's x, y,
\* width and height and the fill of the tier of its count: low up to 7,
\* medium up to 10, high above.
C14_OneRectanglePerCountedRegion ==
    LoopCompleted =>
        /\ Len(rendered.rects) = Cardinality(Drawn)
        /\ \A i \in DOMAIN rendered.rects :
              LET region == regions[DrawnAt(i)]
                  rect == rendered.rects[i]
              IN  /\ rect.x = region.x
                  /\ rect.y = region.y
                  /\ rect.width = region.width
                  /\ rect.height = region.height
                  /\ rect.fill = FillOf(TierOf(crowd_counts[region.name]))

\* a region with count 12 is drawn red and one with count 0 is not drawn
C14_Witness ==
    /\ rendered.result = "saved"
    /\ Len(regions) = 2
    /\ regions[1].name # regions[2].name
    /\ crowd_counts[regions[1].name] = 0
    /\ crowd_counts[regions[2].name] = 12
    /\ Len(rendered.rects) = 1
    /\ rendered.rects[1].fill = "#FF0000"
    /\ rendered.rects[1].x = regions[2].x

\* a count of 7 is drawn green, a count of 10 orange
C14_WitnessBoundaries ==
    /\ rendered.result = "saved"
    /\ Len(regions) = 2
    /\ regions[1].name # regions[2].name
    /\ crowd_counts[regions[1].name] = 7
    /\ crowd_counts[regions[2].name] = 10
    /\ rendered.rects[1].fill = "#00FF00"
    /\ rendered.rects[2].fill = "#FFA500"

Tagless(svg) == svg # NoFile /\ \A i \in DOMAIN svg : svg[i].t # "</svg>"

\* C15: when generate_heatmap() reads a base document without the closing
\* tag, it writes nothing: the heatmap file is what it was, and the call
\* ends reporting the missing tag (or, before it gets there, with the
\* KeyError of a region that is to be drawn and lacks a key).
C15_NoTagNoOutput ==
    [][(rendered = NoRender /\ rendered' # NoRender /\ Tagless(svg_content')) =>
          /\ heatmap_file' = heatmap_file
          /\ rendered'.result \in {"tag not found", "KeyError"}
          /\ rendered'.result = "KeyError" =>
                \E k \in Drawn : ~({"x", "y", "width", "height"} \subseteq DOMAIN regions[k])]_vars

\* rectangles were built, the tag was missing, the old heatmap is in place
C15_Witness ==
    /\ rendered.result = "tag not found"
    /\ rendered.rects # <<>>
    /\ Tagless(svg_content)
    /\ heatmap_file = OldDoc

ClosingTags(svg) == {i \in DOMAIN svg : svg[i].t = "</svg>"}
LastClosing(svg) == CHOOSE i \in ClosingTags(svg) : \A j \in ClosingTags(svg) : j <= i

\* C16: a heatmap that was saved is the base document with the block of
\* rectangles inserted once, before the last closing tag, and nothing else
\* changed.
C16_InsertedOnceBeforeClosingTag ==
    rendered.result = "saved" =>
        heatmap_file = SubSeq(svg_content, 1, LastClosing(svg_content) - 1)
                       \o rendered.rects
                       \o SubSeq(svg_content, LastClosing(svg_content), Len(svg_content))

\* the way C16 fails: the closing tag occurs twice and the rectangle is
\* inserted before each
C16_InsertedTwice ==
    /\ rendered.result = "saved"
    /\ svg_content = <<OpenTag, CloseTag, CloseTag>>
    /\ Len(rendered.rects) = 1
    /\ heatmap_file = <<OpenTag, rendered.rects[1], CloseTag, rendered.rects[1], CloseTag>>

\* with one closing tag the block is inserted once, before it
C16_OneTagInsertedOnce ==
    (rendered.result = "saved" /\ Cardinality(ClosingTags(svg_content)) = 1) =>
        heatmap_file = SubSeq(svg_content, 1, LastClosing(svg_content) - 1)
                       \o rendered.rects
                       \o SubSeq(svg_content, LastClosing(svg_content), Len(svg_content))

IsImageName(f) == lower(f)[Len(f)] \in {".png", ".jpg", ".jpeg"}
MatchedBy(f) ==
    {k \in DOMAIN regions : contains(lower(f), lower(remove_spaces(regions[k].name)))}
RequestFailed(rp) == rp.kind \in {"status error", "connection error", "invalid json"}

\* C20: an iteration of main()'s loop over an image file that matches a
\* region changes no total but that of the region assigned, adds the count
\* received to it, or nothing when the request failed, and adds one to
\* processed_images; an iteration over a file that matches no region (or is
\* no image) changes no total and not processed_images.
C20_OnlyTheMatchedRegionChanges ==
    [][(gen_pc = "loop" /\ todo # <<>> /\ todo' = Tail(todo)) =>
          IF IsImageName(Head(todo)) /\ MatchedBy(Head(todo)) # {}
          THEN /\ region_name' \in {regions[k].name : k \in MatchedBy(Head(todo))}
               /\ \A n \in DOMAIN crowd_counts :
                     n # region_name' => crowd_counts'[n] = crowd_counts[n]
               /\ processed_images' = processed_images + 1
               /\ RequestFailed(reply') => crowd_counts' = crowd_counts
               /\ reply'.kind = "ok" =>
                     crowd_counts'[region_name'] = crowd_counts[region_name'] + reply'.count
          ELSE /\ crowd_counts' = crowd_counts
               /\ processed_images' = processed_images]_vars

\* the second image of a run matched the region "a" while "B" had a total:
\* its request failed, it was counted, and no total moved
C20_Witness ==
    /\ gen_pc = "loop"
    /\ processed_images = 2
    /\ RequestFailed(reply)
    /\ region_name = <<"a">>
    /\ Len(log) = 2
    /\ log[2] = <<region_name, 0>>
    /\ log[1][1] = <<"B">>
    /\ crowd_counts[<<"B">>] = 3
    /\ crowd_counts[<<"a">>] = 0

\* an image that matches no region: nothing is counted
C20_WitnessUnmatched ==
    /\ gen_pc = "loop"
    /\ runs = 1
    /\ image_file = <<" ", ".jpeg">>
    /\ region_name = NoRegion
    /\ todo = <<>>
    /\ processed_images = 0
    /\ Len(regions) = 2
====
